---------------------------- MODULE Spec2Model ----------------------------
(***************************************************************************)
(* UA4F: a SOCKS5 relay that rewrites the User-Agent header of the HTTP    *)
(* requests passing through it (src/src/main.rs, src/src/http.rs).         *)
(*                                                                         *)
(* Five specifications share this module:                                  *)
(*   Spec        the accept loop of start_server with its admission        *)
(*               semaphore and one handler task per accepted connection;   *)
(*   SpecSession one CONNECT session (handle_tcp_connect) at the level of  *)
(*               the bytes read from the client and written to the target; *)
(*   SpecFn      the pure functions of http.rs applied to bounded inputs;  *)
(*   SpecCodec   the UDP framing functions applied to bounded inputs;      *)
(*   SpecUdp     the pump of one UDP association (handle_udp_traffic).     *)
(* Bytes are integers 0..255, byte strings are sequences of them, and the  *)
(* source's 0-based offsets are kept: buf[i] of the source is buf[i+1].    *)
(***************************************************************************)
EXTENDS Integers, Sequences, FiniteSets, TLC

VARIABLES
    \* ---- SpecFn: one call of a function of http.rs
    fnPc,           \* "input" | "classified" | "modified"
    fnBuf,          \* the buffer handed to the function
    fnUa,           \* the user_agent argument
    fnOut,          \* the buffer after the call
    fnHttp,         \* is_http_request's result

    \* ---- SpecSession: one CONNECT session
    pc,             \* position of handle_tcp_connect
    stream,         \* every byte the client sends in this session
    cuts,           \* offsets at which the client's sending pauses
    sent,           \* bytes the client has sent so far
    clientClosed,   \* the client has closed its sending side
    rd,             \* bytes the proxy has read from the client
    buf,            \* the sniff buffer (Vec<u8>), packed: see Pack
    bufSrc,         \* ghost: for each byte of buf, its offset in stream (0: not the
                    \* client's), packed
    initial_read,
    total_read,
    is_http,
    targetRecv,     \* bytes written to the target
    targetSrc,      \* ghost: for each byte of targetRecv, its offset in stream (0: not the client's)
    replies,        \* SOCKS5 replies sent to the client
    targetUp,       \* the outbound connection is established
    c2t,            \* client-to-target direction: "idle" | "open" | "eof"
    t2c,            \* target-to-client direction: "idle" | "open" | "eof"
    clientRecv,     \* number of target bytes relayed to the client
    copyResult,     \* what copy_bidirectional returned: "none" | "ok" |
                    \* "err_reset" | "err_other"
    result,         \* how handle_tcp_connect ended
    priorNonHttp,   \* history: an earlier session to this destination was classified
                    \* non-HTTP a moment ago
    connectErr,     \* the error the outbound connect ended with: "none" | "refused" | "timed_out"

    \* ---- Spec: the server
    mainPc,         \* position of start_server
    USERAGENT,      \* static mut USERAGENT
    available,      \* permits left in the semaphore
    loopPermit,     \* the accept loop owns a permit it has not handed to a task
    acceptFailed,   \* history: server.accept() has returned an error
    conns,          \* per connection: the handler task's state while it runs
    ended,          \* history: how the tasks that have ended went (their last state)

    \* ---- SpecCodec: one call of the UDP framing functions
    cPc,            \* "input" | "encapsulated" | "parsed"
    cAddr,          \* the socket address handed to encapsulate_socks5_udp_packet
    cData,          \* its payload
    cPacket,        \* the packet built, or the packet handed to the parser
    cParsed,        \* parse_socks5_udp_packet's result

    \* ---- SpecUdp: the pump of one UDP association (handle_udp_traffic)
    udpPc,          \* "recv" | "forward" | "respond"
    udpIn,          \* the datagram recv_from returned: its source and its bytes
    udpOut,         \* the datagrams sent, each with the received one that caused it
    udpCount        \* datagrams received so far

fnVars == <<fnPc, fnBuf, fnUa, fnOut, fnHttp>>
sessVars == <<pc, stream, cuts, sent, clientClosed, rd, buf, bufSrc, initial_read,
              total_read, is_http, targetRecv, targetSrc, replies, targetUp, c2t, t2c,
              clientRecv, copyResult, result, connectErr, priorNonHttp>>
srvVars == <<mainPc, available, loopPermit, acceptFailed, conns, ended>>
codecVars == <<cPc, cAddr, cData, cPacket, cParsed>>
pumpVars == <<udpPc, udpIn, udpOut, udpCount>>
udpVars == <<codecVars, pumpVars>>
vars == <<fnVars, sessVars, srvVars, USERAGENT, udpVars>>

---------------------------------------------------------------------------
(* Byte strings *)

None == 0 - 1

\* Option<String>: empty for None, one element for Some.
NoneUa == <<>>
Some(x) == <<x>>
unwrap(o) == o[1]

Take(s, n) == SubSeq(s, 1, n)
Drop(s, n) == SubSeq(s, n + 1, Len(s))
Rep(n, b) == <<>> \o [i \in 1..n |-> b]
MinOf(S) == CHOOSE x \in S : \A y \in S : x <= y

\* A byte vector is kept as its bytes up to the last non-zero one (data) and the
\* number of zero bytes after them (pad): vec![0; 4096] is [data |-> <<>>,
\* pad |-> 4096]. Unpack gives the vector back, so nothing is lost.
Pack(v) ==
    LET last == CHOOSE i \in 0..Len(v) :
                    /\ i = 0 \/ v[i] # 0
                    /\ \A j \in (i + 1)..Len(v) : v[j] = 0
    IN  [data |-> Take(v, last), pad |-> Len(v) - last]
Unpack(p) == p.data \o Rep(p.pad, 0)
NoVec == [data |-> <<>>, pad |-> 0]

\* slice.windows(pat.len()).position(|w| w == pat): the 0-based offset of the
\* first window equal to pat, None when there is none (or s is shorter than pat).
WindowsPosition(s, pat) ==
    LET Match(i) == \A k \in 1..Len(pat) : s[i + k] = pat[k]
        offsets == 0..(Len(s) - Len(pat))
    IN  IF \E i \in offsets : Match(i)
        THEN CHOOSE i \in offsets : Match(i) /\ \A j \in 0..(i - 1) : ~Match(j)
        ELSE None

UaTarget == <<85, 115, 101, 114, 45, 65, 103, 101, 110, 116, 58, 32>>  \* b"User-Agent: "
CRLF == <<13, 10>>                                                      \* b"\r\n"

WHITELIST ==
    { <<109, 105, 99, 114, 111, 109, 101, 115, 115, 101, 110, 103, 101, 114,
        32, 99, 108, 105, 101, 110, 116>>,                  \* "micromessenger client"
      <<98, 105, 108, 105, 98, 105, 108, 105>> }            \* "bilibili"

\* std::str::from_utf8(buf).is_ok(). Exact for the byte strings of this model,
\* whose only non-ASCII byte is 0xFF, a byte no UTF-8 string contains.
from_utf8_ok(b) == \A i \in 1..Len(b) : b[i] < 128

\* str::to_lowercase on an ASCII string.
to_lowercase(s) == [i \in 1..Len(s) |-> IF s[i] \in 65..90 THEN s[i] + 32 ELSE s[i]]

\* str::contains
Contains(s, item) == WindowsPosition(s, item) # None

check_is_in_whitelist(b) ==
    LET s == IF from_utf8_ok(b) THEN to_lowercase(b) ELSE <<>>
    IN  \E item \in WHITELIST : Contains(s, item)

---------------------------------------------------------------------------
(* http.rs *)

\* A classifier that looks at the first byte alone.
is_http_request_first_byte(b) ==
    Len(b) >= 3 /\ b[1] \in {71, 80, 72, 68, 84, 79, 67}

is_http_request(b) ==
    IF Len(b) < 3 THEN FALSE
    ELSE IF b[1] = 71 /\ Len(b) >= 3 /\ b[2] = 69 /\ b[3] = 84 THEN TRUE          \* GET
    ELSE IF b[1] = 80 /\ Len(b) >= 3 /\ b[2] = 79 /\ b[3] = 83
         THEN (IF Len(b) >= 4 /\ b[4] = 84 THEN TRUE ELSE FALSE)                  \* POST
    ELSE IF b[1] = 72 /\ Len(b) >= 4 /\ b[2] = 69 /\ b[3] = 65 /\ b[4] = 68
         THEN TRUE                                                                \* HEAD
    ELSE IF b[1] = 68 /\ Len(b) >= 6 /\ b[2] = 69 /\ b[3] = 76 /\ b[4] = 69
            /\ b[5] = 84 /\ b[6] = 69 THEN TRUE                                   \* DELETE
    ELSE IF b[1] = 84 /\ Len(b) >= 5 /\ b[2] = 82 /\ b[3] = 65 /\ b[4] = 67
            /\ b[5] = 69 THEN TRUE                                                \* TRACE
    ELSE IF b[1] = 79 /\ Len(b) >= 7 /\ b[2] = 80 /\ b[3] = 84 /\ b[4] = 73
            /\ b[5] = 79 /\ b[6] = 78 /\ b[7] = 83 THEN TRUE                      \* OPTIONS
    ELSE IF b[1] = 67 /\ Len(b) >= 7 /\ b[2] = 79 /\ b[3] = 78 /\ b[4] = 78
            /\ b[5] = 69 /\ b[6] = 67 /\ b[7] = 84 THEN TRUE                      \* CONNECT
    ELSE IF b[1] = 80 /\ Len(b) >= 3 /\ b[2] = 85 /\ b[3] = 84 THEN TRUE          \* PUT
    ELSE IF b[1] = 80 /\ Len(b) >= 5 /\ b[2] = 65 /\ b[3] = 84 /\ b[4] = 67
            /\ b[5] = 72 THEN TRUE                                                \* PATCH
    ELSE FALSE

\* A splice that writes replace_with over the bytes from start on and moves
\* nothing (an in-place overwrite).
splice_in_place(b, start, end, replace_with) ==
    [i \in 1..Len(b) |->
        IF i > start /\ i <= start + Len(replace_with) THEN replace_with[i - start]
        ELSE b[i]]

\* Vec::splice(start..end, replace_with): the bytes of [start, end) give way to
\* replace_with and the bytes from end on shift.
splice(b, start, end, replace_with) ==
    Take(b, start) \o replace_with \o Drop(b, end)

\* A search whose miss counts as offset 0 (position(..).unwrap_or(0)).
ua_start_or_zero(b) ==
    LET start == WindowsPosition(b, UaTarget)
    IN  IF start = None THEN Len(UaTarget) ELSE start + Len(UaTarget)

\* Lines 32-37: the offset just past the first "User-Agent: ", None without one.
ua_start(b) ==
    LET start == WindowsPosition(b, UaTarget)
    IN  IF start = None THEN None ELSE start + Len(UaTarget)

\* Lines 40-44: the offset of the first "\r\n" at or after start, else the
\* length of the buffer.
ua_end(b, start) ==
    LET pos == WindowsPosition(Drop(b, start), CRLF)
    IN  IF pos = None THEN Len(b) ELSE start + pos

\* The buffer modify_user_agent leaves behind.
modify_user_agent(b, user_agent) ==
    LET start == ua_start(b)
    IN  IF start = None THEN b
        ELSE LET end == ua_end(b, start)
             IN  IF check_is_in_whitelist(SubSeq(b, start + 1, end)) THEN b
                 ELSE splice(b, start, end, user_agent)

---------------------------------------------------------------------------
(* SpecFn: the functions of http.rs on bounded inputs *)

MaxSniffLen == 8        \* longest prefix handed to is_http_request
MaxValueLen == 2        \* longest enumerated User-Agent value

MethodTokens ==
    { <<71, 69, 84>>, <<80, 79, 83, 84>>, <<80, 85, 84>>, <<80, 65, 84, 67, 72>>,
      <<72, 69, 65, 68>>, <<68, 69, 76, 69, 84, 69>>, <<84, 82, 65, 67, 69>>,
      <<79, 80, 84, 73, 79, 78, 83>>, <<67, 79, 78, 78, 69, 67, 84>> }

\* Request-line candidates: every prefix of a method token followed by a space,
\* by another byte or by nothing, and each of these with one byte replaced.
SniffBase ==
    { Take(tok \o tail, IF n < Len(tok \o tail) THEN n ELSE Len(tok \o tail)) :
        tok \in MethodTokens, tail \in {<<32, 47>>, <<88, 32>>, <<>>},
        n \in 0..MaxSniffLen }
SniffInputs ==
    SniffBase \cup
    UNION { { [b EXCEPT ![i] = x] : i \in 1..Len(b), x \in {32, 103} } : b \in SniffBase }

BiliBili == <<66, 105, 108, 105, 66, 105, 108, 105>>                   \* "BiliBili"
MicroMessengerClient ==
    <<77, 105, 99, 114, 111, 77, 101, 115, 115, 101, 110, 103, 101, 114,
      32, 67, 108, 105, 101, 110, 116>>                                \* "MicroMessenger Client"

ShortValues ==
    UNION { [1..n -> {97, 66, 255}] : n \in 0..MaxValueLen }
UaValues ==
    ShortValues \cup
    { BiliBili, to_lowercase(BiliBili), <<120>> \o BiliBili, BiliBili \o <<47, 49>>,
      Take(BiliBili, 7), BiliBili \o <<255>>,
      MicroMessengerClient, <<97, 32>> \o to_lowercase(MicroMessengerClient),
      Rep(1024, 97), Rep(1025, 97) }

GetLine == <<71, 69, 84, 32, 47, 13, 10>>                              \* "GET /\r\n"
HostLines == <<72, 111, 115, 116, 58, 32, 120, 13, 10, 13, 10>>        \* "Host: x\r\n\r\n"

\* Buffers for modify_user_agent: a header name (canonical, lower-case, without
\* its space, or none), a value, a line end (or none) and what follows.
UaInputs ==
    { pre \o name \o value \o eol \o rest :
        pre \in {<<>>, GetLine},
        name \in {UaTarget, to_lowercase(UaTarget), Take(UaTarget, 11), <<>>},
        value \in UaValues,
        eol \in {CRLF, <<>>, <<13>>},
        rest \in {<<>>, HostLines, UaTarget \o <<122>> \o CRLF, <<0, 0, 0>>} }

Replacements == { <<70>>, <<70, 70, 70, 70>>, <<>> }

FnInputs ==
    /\ fnPc = "input"
    /\ fnBuf \in SniffInputs \cup UaInputs
    /\ fnUa \in Replacements
    /\ fnOut = fnBuf
    /\ fnHttp = FALSE

\* is_http_request(&buf): the buffer is borrowed immutably.
CallIsHttpRequest ==
    /\ fnPc = "input"
    /\ fnHttp' = is_http_request(fnBuf)
    /\ fnPc' = "classified"
    /\ UNCHANGED <<fnBuf, fnUa, fnOut, sessVars, srvVars, USERAGENT, udpVars>>

\* modify_user_agent(&mut buf, user_agent)
CallModifyUserAgent ==
    /\ fnPc = "input"
    /\ fnOut' = modify_user_agent(fnBuf, fnUa)
    /\ fnPc' = "modified"
    /\ UNCHANGED <<fnBuf, fnUa, fnHttp, sessVars, srvVars, USERAGENT, udpVars>>

FnNext == CallIsHttpRequest \/ CallModifyUserAgent

\* The session and the server at rest, for the specifications that do not run them.
SessIdle ==
    /\ pc = "off" /\ stream = <<>> /\ cuts = {} /\ sent = 0 /\ clientClosed = FALSE
    /\ rd = 0 /\ buf = [data |-> <<>>, pad |-> 0] /\ bufSrc = [data |-> <<>>, pad |-> 0] /\ initial_read = 0 /\ total_read = 0
    /\ is_http = FALSE /\ targetRecv = <<>> /\ targetSrc = <<>> /\ replies = <<>>
    /\ targetUp = FALSE /\ c2t = "idle" /\ t2c = "idle" /\ clientRecv = 0
    /\ copyResult = "none" /\ result = "none" /\ connectErr = "none"
    /\ priorNonHttp = FALSE
SrvIdle ==
    /\ mainPc = "off" /\ available = 0 /\ loopPermit = FALSE /\ acceptFailed = FALSE
    /\ conns = <<>> /\ ended = {}
FnIdle ==
    /\ fnPc = "off" /\ fnBuf = <<>> /\ fnUa = <<>> /\ fnOut = <<>> /\ fnHttp = FALSE
NoAddr == [kind |-> "none", ip |-> <<>>, port |-> 0]
CodecIdle ==
    /\ cPc = "off" /\ cAddr = NoAddr /\ cData = <<>> /\ cPacket = <<>> /\ cParsed = <<>>
PumpIdle ==
    /\ udpPc = "off" /\ udpIn = <<>> /\ udpOut = <<>> /\ udpCount = 0
UdpIdle == CodecIdle /\ PumpIdle

FnInit == FnInputs /\ SessIdle /\ SrvIdle /\ UdpIdle /\ USERAGENT = NoneUa
SpecFn == FnInit /\ [][FnNext]_vars

---------------------------------------------------------------------------
(* What the claims about http.rs speak of, stated without the code's operators *)

\* "User-Agent: " stands at 0-based offset i of b.
HeaderAt(b, i) == i + Len(UaTarget) <= Len(b) /\ SubSeq(b, i + 1, i + Len(UaTarget)) = UaTarget
HasHeader(b) == \E i \in 0..(Len(b) - Len(UaTarget)) : HeaderAt(b, i)
\* s is where the value of the first "User-Agent: " header starts.
IsValueStart(b, s) ==
    /\ s >= Len(UaTarget) /\ HeaderAt(b, s - Len(UaTarget))
    /\ \A j \in 0..(s - Len(UaTarget) - 1) : ~HeaderAt(b, j)
CrlfAt(b, j) == j + 2 <= Len(b) /\ b[j + 1] = 13 /\ b[j + 2] = 10
\* e is where that value ends: at its CRLF, or at the end of b without one.
IsValueEnd(b, s, e) ==
    /\ e >= s
    /\ CrlfAt(b, e) \/ e = Len(b)
    /\ \A j \in s..(e - 1) : ~CrlfAt(b, j)
ValueStart(b) == CHOOSE s \in 0..Len(b) : IsValueStart(b, s)
ValueEnd(b) == CHOOSE e \in ValueStart(b)..Len(b) : IsValueEnd(b, ValueStart(b), e)
Value(b) == SubSeq(b, ValueStart(b) + 1, ValueEnd(b))

IsPrefix(p, b) == Len(p) <= Len(b) /\ Take(b, Len(p)) = p
StartsWithToken(b) == \E tok \in MethodTokens : IsPrefix(tok, b)
StartsWithTokenSpace(b) == \E tok \in MethodTokens : IsPrefix(tok \o <<32>>, b)

EqIgnoreCase(a, item) == from_utf8_ok(a) /\ to_lowercase(a) = item
ContainsIgnoreCase(a, item) == from_utf8_ok(a) /\ Contains(to_lowercase(a), item)

\* C2: modify_user_agent on a buffer with a "User-Agent: " header whose value is
\* not whitelisted replaces exactly [value start, value end) by the replacement:
\* the bytes before the value and the bytes from its end on are kept in order,
\* and the length changes by (replacement length - value length).
C2_SpliceExact ==
    (fnPc = "modified" /\ HasHeader(fnBuf) /\ ~check_is_in_whitelist(Value(fnBuf))) =>
        LET s == ValueStart(fnBuf)
            e == ValueEnd(fnBuf)
        IN  /\ Len(fnOut) = Len(fnBuf) + Len(fnUa) - (e - s)
            /\ Take(fnOut, s) = Take(fnBuf, s)
            /\ SubSeq(fnOut, s + 1, s + Len(fnUa)) = fnUa
            /\ Drop(fnOut, s + Len(fnUa)) = Drop(fnBuf, e)

\* C2's case: "ab" gives way to the longer "FFFF", the Host lines shift.
C2_Witness ==
    /\ fnPc = "modified"
    /\ fnBuf = GetLine \o UaTarget \o <<97, 66>> \o CRLF \o HostLines
    /\ fnUa = <<70, 70, 70, 70>>
    /\ fnOut = GetLine \o UaTarget \o <<70, 70, 70, 70>> \o CRLF \o HostLines

\* C3 as stated: is_http_request is true exactly for the buffers that start
\* with a method token followed by a space.
C3_TokenThenSpace ==
    fnPc = "classified" => (fnHttp = StartsWithTokenSpace(fnBuf))

\* C3 amended: is_http_request is true exactly for the buffers that start with
\* a method token, whatever follows; so it is false below 3 bytes; the buffer
\* is left as it was.
C3_TokenPrefix ==
    fnPc = "classified" =>
        /\ fnHttp = StartsWithToken(fnBuf)
        /\ Len(fnBuf) < 3 => ~fnHttp
        /\ StartsWithTokenSpace(fnBuf) => fnHttp
        /\ fnOut = fnBuf

\* C3's case: "GETX " starts with a token and no space follows it.
C3_Witness ==
    fnPc = "classified" /\ fnBuf = <<71, 69, 84, 88, 32>> /\ fnHttp

\* C7 as stated: the buffer is left alone when the value equals a whitelist
\* entry ignoring case, and a value that only contains an entry is rewritten.
C7_WholeValueWhitelist ==
    (fnPc = "modified" /\ HasHeader(fnBuf)) =>
        LET v == Value(fnBuf)
        IN  /\ (\E item \in WHITELIST : EqIgnoreCase(v, item)) => fnOut = fnBuf
            /\ (/\ \E item \in WHITELIST : ContainsIgnoreCase(v, item)
                /\ ~\E item \in WHITELIST : EqIgnoreCase(v, item))
               => fnOut = Take(fnBuf, ValueStart(fnBuf)) \o fnUa \o Drop(fnBuf, ValueEnd(fnBuf))

\* C8 as stated: a value longer than 1024 bytes leaves the buffer unchanged.
C8_LongValueUnchanged ==
    (fnPc = "modified" /\ HasHeader(fnBuf) /\ Len(Value(fnBuf)) > 1024) => fnOut = fnBuf

---------------------------------------------------------------------------
(* SpecSession: handle_tcp_connect, one CONNECT session *)

BufLen == 4096          \* vec![0; 4096]
InitialReadLen == 8     \* conn.read(&mut buf[..8])
RelayChunk == 8192      \* most bytes one step of the relay moves
MaxCuts == 1            \* pauses in the client's sending
MaxTargetBytes == 1     \* bytes the target answers with

Min(a, b) == IF a < b THEN a ELSE b

Curl == <<99, 117, 114, 108>>                                          \* "curl"
OldAgent == <<79, 108, 100, 65, 103, 101, 110, 116, 47, 49, 46, 48>>   \* "OldAgent/1.0"
HttpRequest(value) == GetLine \o UaTarget \o value \o CRLF \o HostLines
Filler(n) == [i \in 1..n |-> 1 + (i % 250)]

\* What a client may send: nothing, one byte, a TLS-like stream longer than the
\* sniff buffer, requests whose User-Agent value is shorter than, as long as and
\* longer than the replacement, whitelisted values, a request without the
\* header, one whose header line is cut off, requests that fill the buffer,
\* and bytes that only begin like a method.
SessionStreams ==
    { <<>>, <<22>>, <<22, 3, 1>> \o Filler(BufLen + 2),
      HttpRequest(<<97>>), HttpRequest(Curl), HttpRequest(OldAgent),
      HttpRequest(BiliBili), HttpRequest(<<120>> \o BiliBili),
      GetLine \o HostLines,
      GetLine \o UaTarget \o Curl,
      HttpRequest(OldAgent) \o Filler(BufLen - Len(HttpRequest(OldAgent))),
      HttpRequest(<<97>>) \o Filler(BufLen),
      <<71, 69, 84, 88, 32, 1, 2, 3, 4, 5>> }

\* The client pauses inside the method, inside the header's name or inside its value.
CutOffsets(st) ==
    {k \in {3, Len(GetLine) + 5, Len(GetLine \o UaTarget) + 2} : k < Len(st)}

SessInputs ==
    /\ pc = "connect"
    /\ stream \in SessionStreams
    /\ cuts \in {c \in SUBSET CutOffsets(stream) : Cardinality(c) <= MaxCuts}
    /\ USERAGENT \in {Some(r) : r \in Replacements}
    /\ sent = 0 /\ clientClosed = FALSE /\ rd = 0
    /\ buf = NoVec /\ bufSrc = NoVec /\ initial_read = 0 /\ total_read = 0
    /\ is_http = FALSE /\ targetRecv = <<>> /\ targetSrc = <<>> /\ replies = <<>>
    /\ targetUp = FALSE /\ c2t = "idle" /\ t2c = "idle" /\ clientRecv = 0
    /\ copyResult = "none" /\ result = "none" /\ connectErr = "none"
    \* handle_tcp_connect keeps nothing from one session to the next; sessions
    \* that follow a non-HTTP session to the same destination are the unpaused
    \* ones with the default replacement.
    /\ priorNonHttp \in {FALSE} \cup {cuts = {} /\ USERAGENT = Some(<<70, 70, 70, 70>>)}

rest == <<fnVars, srvVars, udpVars, USERAGENT, stream, cuts, priorNonHttp>>

\* The client sends its next bytes, up to its next pause; it starts once it has
\* the Succeeded reply.
ClientSend ==
    /\ "Succeeded" \in {replies[i] : i \in 1..Len(replies)}
    /\ sent < Len(stream)
    /\ sent' = MinOf({c \in cuts : c > sent} \cup {Len(stream)})
    /\ UNCHANGED <<rest, connectErr, pc, clientClosed, rd, buf, bufSrc, initial_read, total_read,
                   is_http, targetRecv, targetSrc, replies, targetUp, c2t, t2c,
                   clientRecv, copyResult, result>>

\* The client has sent everything and closes its sending side.
ClientClose ==
    /\ "Succeeded" \in {replies[i] : i \in 1..Len(replies)}
    /\ sent = Len(stream) /\ ~clientClosed
    /\ clientClosed' = TRUE
    /\ UNCHANGED <<rest, connectErr, pc, sent, rd, buf, bufSrc, initial_read, total_read,
                   is_http, targetRecv, targetSrc, replies, targetUp, c2t, t2c,
                   clientRecv, copyResult, result>>

\* Lines 278-284, Ok: the outbound connection is established.
ConnectOk ==
    /\ pc = "connect"
    /\ targetUp' = TRUE
    /\ pc' = "reply"
    /\ UNCHANGED <<rest, connectErr, sent, clientClosed, rd, buf, bufSrc, initial_read, total_read,
                   is_http, targetRecv, targetSrc, replies, c2t, t2c, clientRecv,
                   copyResult, result>>

\* The errors TcpStream::connect ends with: the target refuses or cannot be
\* routed to, or it never answers and the operating system gives the attempt up.
ConnectErrors == {"refused", "timed_out"}

\* Lines 278-284, Err: the connection attempt failed. Nothing bounds the await
\* of TcpStream::connect, so an attempt to a silent target ends only with the
\* operating system's own error, which takes the same arm as any other.
ConnectErr ==
    /\ pc = "connect"
    /\ connectErr' \in ConnectErrors
    /\ pc' = "reply_unreachable"
    /\ UNCHANGED <<rest, sent, clientClosed, rd, buf, bufSrc, initial_read, total_read,
                   is_http, targetRecv, targetSrc, replies, targetUp, c2t, t2c,
                   clientRecv, copyResult, result>>

\* Lines 288-298: the Succeeded reply is written and the sniff buffer allocated.
ReplySucceeded ==
    /\ pc = "reply"
    /\ replies' = Append(replies, "Succeeded")
    /\ buf' = Pack(Rep(BufLen, 0))
    /\ bufSrc' = Pack(Rep(BufLen, 0))
    /\ pc' = "read_initial"
    /\ UNCHANGED <<rest, connectErr, sent, clientClosed, rd, initial_read, total_read, is_http,
                   targetRecv, targetSrc, targetUp, c2t, t2c, clientRecv, copyResult,
                   result>>

\* Lines 291-295: the reply could not be written; the client stream is shut down
\* (an error of the shutdown is returned in place of the reply's).
ReplySucceededErr ==
    /\ pc = "reply"
    /\ \E shut_ok \in BOOLEAN :
          result' = IF shut_ok THEN "err_reply" ELSE "err_shutdown"
    /\ pc' = "done"
    /\ UNCHANGED <<rest, connectErr, sent, clientClosed, rd, buf, bufSrc, initial_read, total_read,
                   is_http, targetRecv, targetSrc, replies, targetUp, c2t, t2c,
                   clientRecv, copyResult>>

\* A failure path that returns Ok(()) once the reply is out.
connect_err_result_ok(sent_ok, shut_ok) ==
    IF sent_ok THEN "ok" ELSE "err_connect"

\* Lines 335-338: what handle_tcp_connect returns after a failed connect.
connect_err_result(sent_ok, shut_ok) ==
    IF sent_ok /\ ~shut_ok THEN "err_shutdown" ELSE "err_connect"

\* Lines 332-339: HostUnreachable is replied; if that went out the client stream
\* is shut down; the connect error (or the shutdown's) is returned.
ReplyUnreachable ==
    /\ pc = "reply_unreachable"
    /\ \E sent_ok \in BOOLEAN, shut_ok \in BOOLEAN :
          /\ replies' = IF sent_ok THEN Append(replies, "HostUnreachable") ELSE replies
          /\ result' = connect_err_result(sent_ok, shut_ok)
    /\ pc' = "done"
    /\ UNCHANGED <<rest, connectErr, sent, clientClosed, rd, buf, bufSrc, initial_read, total_read,
                   is_http, targetRecv, targetSrc, targetUp, c2t, t2c, clientRecv,
                   copyResult>>

\* buf[from..from+n] filled with the next n bytes of the client's stream.
fill(b, from, n, bytes) ==
    Take(b, from) \o bytes \o Drop(b, from + n)

\* Lines 299-307: the first read, of at most 8 bytes. Nothing read (the client
\* closed): both streams are shut down and the session ends. Otherwise the
\* bytes are classified; an HTTP session takes the replacement User-Agent.
ReadInitial ==
    /\ pc = "read_initial"
    /\ sent > rd \/ clientClosed
    /\ LET n == Min(InitialReadLen, sent - rd)
           nbuf == fill(Unpack(buf), 0, n, SubSeq(stream, rd + 1, rd + n))
           http == is_http_request(Take(nbuf, n))
       IN  IF n = 0
           THEN /\ \E shut_ok \in BOOLEAN :
                      result' = IF shut_ok THEN "ok" ELSE "err_shutdown"
                /\ pc' = "done"
                /\ c2t' = "eof"
                /\ UNCHANGED <<buf, bufSrc, rd, initial_read, is_http>>
           ELSE /\ buf' = Pack(nbuf)
                /\ bufSrc' = Pack(fill(Unpack(bufSrc), 0, n, <<>> \o [i \in 1..n |-> rd + i]))
                /\ rd' = rd + n
                /\ initial_read' = n
                /\ is_http' = http
                /\ IF http /\ USERAGENT = NoneUa
                   THEN pc' = "done" /\ result' = "panic"
                   ELSE pc' = (IF http THEN "read_more" ELSE "forward")
                        /\ UNCHANGED result
                /\ UNCHANGED c2t
    /\ UNCHANGED <<rest, connectErr, sent, clientClosed, total_read, targetRecv, targetSrc,
                   replies, targetUp, t2c, clientRecv, copyResult>>

\* Lines 299 and 311: a read fails.
ReadErr ==
    /\ pc \in {"read_initial", "read_more"}
    /\ pc' = "done"
    /\ result' = "err_read"
    /\ UNCHANGED <<rest, connectErr, sent, clientClosed, rd, buf, bufSrc, initial_read, total_read,
                   is_http, targetRecv, targetSrc, replies, targetUp, c2t, t2c,
                   clientRecv, copyResult>>

\* Ghost of modify_user_agent: the offsets src of the bytes of b go through the
\* splice that b goes through; the replacement's bytes are not the client's.
modify_src(b, src, user_agent) ==
    LET start == ua_start(b)
    IN  IF start = None THEN src
        ELSE LET end == ua_end(b, start)
             IN  IF check_is_in_whitelist(SubSeq(b, start + 1, end)) THEN src
                 ELSE splice(src, start, end, Rep(Len(user_agent), 0))

\* Lines 311-315: one more read into the rest of the buffer, then
\* modify_user_agent on the whole buffer; slicing it to total_read panics when
\* the buffer has become shorter than that.
ReadMore ==
    /\ pc = "read_more"
    /\ sent > rd \/ clientClosed
    /\ LET n == Min(BufLen - initial_read, sent - rd)
           nbuf == fill(Unpack(buf), initial_read, n, SubSeq(stream, rd + 1, rd + n))
           nsrc == fill(Unpack(bufSrc), initial_read, n, <<>> \o [i \in 1..n |-> rd + i])
           mbuf == modify_user_agent(nbuf, unwrap(USERAGENT))
       IN  /\ rd' = rd + n
           /\ total_read' = initial_read + n
           /\ buf' = Pack(mbuf)
           /\ bufSrc' = Pack(modify_src(nbuf, nsrc, unwrap(USERAGENT)))
           /\ IF initial_read + n > Len(mbuf)
              THEN pc' = "done" /\ result' = "panic"
              ELSE pc' = "forward" /\ UNCHANGED result
    /\ UNCHANGED <<rest, connectErr, sent, clientClosed, initial_read, is_http, targetRecv,
                   targetSrc, replies, targetUp, c2t, t2c, clientRecv, copyResult>>

\* A forward of the whole buffer.
forward_slice_whole(b, http, initial, total) == b

\* Lines 315 and 317: the slice handed to target.write_all.
forward_slice(b, http, initial, total) ==
    IF http THEN Take(b, total) ELSE Take(b, initial)

\* Lines 315/317: write_all succeeds.
Forward ==
    /\ pc = "forward"
    /\ targetRecv' = targetRecv \o
           forward_slice(Unpack(buf), is_http, initial_read, total_read)
    /\ targetSrc' = targetSrc \o
           forward_slice(Unpack(bufSrc), is_http, initial_read, total_read)
    /\ pc' = "flush"
    /\ UNCHANGED <<rest, connectErr, sent, clientClosed, rd, buf, bufSrc, initial_read, total_read,
                   is_http, replies, targetUp, c2t, t2c, clientRecv, copyResult, result>>

\* Lines 315/317: write_all fails, after none or the first of the bytes.
ForwardErr ==
    /\ pc = "forward"
    /\ \E k \in {0, Min(1, Len(forward_slice(Unpack(buf), is_http, initial_read,
                                               total_read)))} :
          /\ targetRecv' = targetRecv \o
                 Take(forward_slice(Unpack(buf), is_http, initial_read, total_read), k)
          /\ targetSrc' = targetSrc \o
                 Take(forward_slice(Unpack(bufSrc), is_http, initial_read, total_read), k)
    /\ pc' = "done"
    /\ result' = "err_write"
    /\ UNCHANGED <<rest, connectErr, sent, clientClosed, rd, buf, bufSrc, initial_read, total_read,
                   is_http, replies, targetUp, c2t, t2c, clientRecv, copyResult>>

\* Line 319: flush, then copy_bidirectional starts.
Flush ==
    /\ pc = "flush"
    /\ pc' = "relay"
    /\ c2t' = "open" /\ t2c' = "open"
    /\ UNCHANGED <<rest, connectErr, sent, clientClosed, rd, buf, bufSrc, initial_read, total_read,
                   is_http, targetRecv, targetSrc, replies, targetUp, clientRecv,
                   copyResult, result>>

\* Line 319: flush fails.
FlushErr ==
    /\ pc = "flush"
    /\ pc' = "done"
    /\ result' = "err_flush"
    /\ UNCHANGED <<rest, connectErr, sent, clientClosed, rd, buf, bufSrc, initial_read, total_read,
                   is_http, targetRecv, targetSrc, replies, targetUp, c2t, t2c,
                   clientRecv, copyResult>>

\* Line 321, client to target: the bytes at hand are read and written on.
RelayC2T ==
    /\ pc = "relay" /\ c2t = "open"
    /\ sent > rd
    /\ LET n == Min(RelayChunk, sent - rd)
       IN  /\ targetRecv' = targetRecv \o SubSeq(stream, rd + 1, rd + n)
           /\ targetSrc' = targetSrc \o [i \in 1..n |-> rd + i]
           /\ rd' = rd + n
    /\ UNCHANGED <<rest, connectErr, pc, sent, clientClosed, buf, bufSrc, initial_read, total_read,
                   is_http, replies, targetUp, c2t, t2c, clientRecv, copyResult, result>>

\* Line 321, client to target: end of stream; the target's write side is shut down.
RelayC2TEof ==
    /\ pc = "relay" /\ c2t = "open"
    /\ sent = rd /\ clientClosed
    /\ c2t' = "eof"
    /\ UNCHANGED <<rest, connectErr, pc, sent, clientClosed, rd, buf, bufSrc, initial_read,
                   total_read, is_http, targetRecv, targetSrc, replies, targetUp, t2c,
                   clientRecv, copyResult, result>>

\* Line 321, target to client: a byte of the target's answer is relayed.
RelayT2C ==
    /\ pc = "relay" /\ t2c = "open"
    /\ clientRecv < MaxTargetBytes
    /\ clientRecv' = clientRecv + 1
    /\ UNCHANGED <<rest, connectErr, pc, sent, clientClosed, rd, buf, bufSrc, initial_read,
                   total_read, is_http, targetRecv, targetSrc, replies, targetUp, c2t,
                   t2c, copyResult, result>>

\* Line 321, target to client: end of stream.
RelayT2CEof ==
    /\ pc = "relay" /\ t2c = "open"
    /\ t2c' = "eof"
    /\ UNCHANGED <<rest, connectErr, pc, sent, clientClosed, rd, buf, bufSrc, initial_read,
                   total_read, is_http, targetRecv, targetSrc, replies, targetUp, c2t,
                   clientRecv, copyResult, result>>

\* A relay that returns as soon as one direction has ended.
copy_done_either(a_to_b, b_to_a) == a_to_b = "eof" \/ b_to_a = "eof"

\* Line 321: copy_bidirectional returns Ok once both directions have ended.
copy_done(a_to_b, b_to_a) == a_to_b = "eof" /\ b_to_a = "eof"

\* Lines 322-324 and 342: both directions have ended; Ok(()) is returned.
RelayDone ==
    /\ pc = "relay" /\ copy_done(c2t, t2c)
    /\ copyResult' = "ok"
    /\ result' = "ok"
    /\ pc' = "done"
    /\ UNCHANGED <<rest, connectErr, sent, clientClosed, rd, buf, bufSrc, initial_read, total_read,
                   is_http, targetRecv, targetSrc, replies, targetUp, c2t, t2c,
                   clientRecv>>

\* The errors a read or write of the relay ends with: a connection reset or
\* broken pipe, or any other I/O error.
RelayErrors == {"err_reset", "err_other"}

\* Lines 325-327 and 342: a read or write of either direction fails and
\* copy_bidirectional returns that error, whatever its kind and whatever the
\* state of the other direction; the error is logged and Ok(()) is returned.
RelayErr ==
    /\ pc = "relay"
    /\ copyResult' \in RelayErrors
    /\ result' = "ok"
    /\ pc' = "done"
    /\ UNCHANGED <<rest, connectErr, sent, clientClosed, rd, buf, bufSrc, initial_read, total_read,
                   is_http, targetRecv, targetSrc, replies, targetUp, c2t, t2c,
                   clientRecv>>

SessNext ==
    \/ ClientSend \/ ClientClose
    \/ ConnectOk \/ ConnectErr \/ ReplySucceeded \/ ReplySucceededErr \/ ReplyUnreachable
    \/ ReadInitial \/ ReadErr \/ ReadMore
    \/ Forward \/ ForwardErr \/ Flush \/ FlushErr
    \/ RelayC2T \/ RelayC2TEof \/ RelayT2C \/ RelayT2CEof \/ RelayDone \/ RelayErr

SessInit == SessInputs /\ FnIdle /\ SrvIdle /\ UdpIdle
SpecSession == SessInit /\ [][SessNext]_vars

---------------------------------------------------------------------------
(* Claims about one CONNECT session *)

\* The bytes the two reads of an HTTP session assembled.
Assembled == Take(stream, total_read)
\* a holds a "User-Agent: " header whose value ends at a CRLF inside a.
CompleteUaLine(a) == HasHeader(a) /\ CrlfAt(a, ValueEnd(a))
\* v neither is nor contains a whitelist entry, in any case.
NotWhitelisted(v) == \A item \in WHITELIST : ~ContainsIgnoreCase(v, item)
NonZero(x) == x # 0

\* C1 as stated: in an HTTP session whose assembled bytes hold a complete,
\* non-whitelisted User-Agent line, what has been written to the target when
\* relaying is about to start is the whole rewritten request: the bytes before
\* the value, the replacement, and every byte from the value's end to the last
\* byte read.
C1_WholeRewrittenRequest ==
    (/\ pc = "flush" /\ is_http
     /\ CompleteUaLine(Assembled) /\ NotWhitelisted(Value(Assembled))) =>
        targetRecv = Take(Assembled, ValueStart(Assembled)) \o unwrap(USERAGENT)
                        \o Drop(Assembled, ValueEnd(Assembled))

\* C6: the client's bytes reach the target at most once and in the order read
\* (the offsets of the client's bytes in the target's stream increase strictly
\* and each such byte is the client's byte at that offset); a session classified
\* as non-HTTP hands the target a prefix of the client's stream at every moment
\* and the whole stream once the client's end of stream has been seen.
C6_InOrderAtMostOnce ==
    /\ Len(targetSrc) = Len(targetRecv)
    /\ LET f == SelectSeq(targetSrc, NonZero)
       IN  \A k \in 1..(Len(f) - 1) : f[k] < f[k + 1]
    /\ \A i \in 1..Len(targetSrc) :
          targetSrc[i] # 0 => targetRecv[i] = stream[targetSrc[i]]
    /\ ~is_http => IsPrefix(targetRecv, stream)
    /\ (~is_http /\ c2t = "eof") => targetRecv = stream

\* C6's case: a non-HTTP stream longer than the sniff buffer has been relayed
\* to its end.
C6_Witness ==
    /\ pc = "relay" /\ ~is_http /\ c2t = "eof"
    /\ Len(stream) > BufLen /\ initial_read = InitialReadLen
    /\ targetRecv = stream

\* C9: in an HTTP session whose assembled bytes hold no "User-Agent: ", the
\* buffer is as the reads left it, nothing panics, and what is written to the
\* target before relaying is exactly the bytes read; the relay then follows.
C9_FailOpen ==
    /\ (is_http /\ pc \in {"forward", "flush", "relay"} /\ ~HasHeader(Assembled)) =>
          /\ Unpack(buf) = Assembled \o Rep(BufLen - total_read, 0)
          /\ pc = "flush" => targetRecv = Assembled
          /\ pc = "relay" => IsPrefix(Assembled, targetRecv)
    /\ (is_http /\ result = "panic") => HasHeader(Assembled)

\* C9's case: a request without the header has been forwarded as read and the
\* session is relaying.
C9_Witness ==
    /\ pc = "relay" /\ is_http /\ stream = GetLine \o HostLines
    /\ total_read = Len(stream)
    /\ targetRecv = stream

\* C10 as stated: Succeeded is replied only once the outbound connection is up;
\* after a failed connect the client has been sent HostUnreachable, nothing was
\* read or forwarded, and the handler ends with the connect error.
C10_UnreachableThenConnectError ==
    /\ (\E i \in 1..Len(replies) : replies[i] = "Succeeded") => targetUp
    /\ (pc = "done" /\ ~targetUp) =>
          /\ replies = <<"HostUnreachable">>
          /\ rd = 0 /\ targetRecv = <<>>
          /\ result = "err_connect"

\* C10 amended: Succeeded is replied only once the outbound connection is up;
\* after a failed connect HostUnreachable is the only reply attempted, nothing
\* is read or forwarded, and the handler ends with an error: the connect error,
\* or the shutdown's error when the reply went out and the shutdown of the
\* client stream failed.
C10_UnreachableThenError ==
    /\ (\E i \in 1..Len(replies) : replies[i] = "Succeeded") => targetUp
    /\ (pc = "done" /\ ~targetUp) =>
          /\ replies \in {<<>>, <<"HostUnreachable">>}
          /\ rd = 0 /\ targetRecv = <<>> /\ buf = NoVec
          /\ result \in {"err_connect", "err_shutdown"}
          /\ result = "err_shutdown" => replies = <<"HostUnreachable">>
    /\ (pc = "reply_unreachable") => (~targetUp /\ replies = <<>> /\ rd = 0)

\* C10's case: the connect failed, HostUnreachable went out, the connect error
\* is returned.
C10_Witness ==
    /\ pc = "done" /\ ~targetUp
    /\ replies = <<"HostUnreachable">>
    /\ result = "err_connect"

\* C11 as stated: a connection attempt that timed out has the client sent
\* TtlExpired and the handler end with a timeout error.
C11_TimeoutReply ==
    (pc = "done" /\ connectErr = "timed_out") =>
        /\ replies = <<"TtlExpired">>
        /\ result = "err_timeout"

\* C14: the relay returns normally only when both directions have ended and,
\* with both ended, can return; a direction that has ended (its writer shut
\* down) leaves the other open, which goes on delivering the bytes at hand; no
\* step of the relay ends or changes both directions at once.
C14_HalfClose ==
    /\ [](/\ copyResult = "ok" => (c2t = "eof" /\ t2c = "eof")
          /\ pc = "relay" => (ENABLED RelayDone <=> (c2t = "eof" /\ t2c = "eof"))
          /\ (pc = "relay" /\ c2t = "eof" /\ t2c = "open" /\ clientRecv < MaxTargetBytes)
                 => ENABLED RelayT2C
          /\ (pc = "relay" /\ t2c = "eof" /\ c2t = "open" /\ sent > rd)
                 => ENABLED RelayC2T)
    /\ [][(pc = "relay" /\ pc' = "relay") => (c2t' = c2t \/ t2c' = t2c)]_vars

\* C14's case: the client's direction has ended with everything delivered and
\* the target's is still open with its answer yet to come.
C14_Witness ==
    /\ pc = "relay" /\ c2t = "eof" /\ t2c = "open"
    /\ clientRecv = 0 /\ Len(stream) > 0 /\ rd = Len(stream)

\* C15 as stated: a connection reset or broken pipe never ends the relay (it
\* ends one direction only), and a relay ended by any other I/O error has the
\* handler return that error.
C15_ResetGracefulOtherFatal ==
    /\ copyResult # "err_reset"
    /\ copyResult = "err_other" => result = "err_io"

\* C13 as stated, for the later connection: a session to a destination that
\* was classified non-HTTP a moment ago is not sniffed, and what it has written
\* to the target when relaying is about to start is the client's bytes as read.
C13_CacheHitSkipsSniffing ==
    (priorNonHttp /\ pc = "flush") =>
        /\ ~is_http
        /\ targetRecv = Take(stream, rd)

\* C21 as stated: once modify_user_agent has returned in an HTTP session, the
\* buffer is at least total_read bytes long, so the slice buf[..total_read]
\* is in range and the session does not panic.
C21_SliceInBounds ==
    /\ (is_http /\ pc \in {"forward", "flush", "relay", "done"} /\ buf # NoVec) =>
          Len(buf.data) + buf.pad >= total_read
    /\ result # "panic"

---------------------------------------------------------------------------
(* Spec: start_server and the handler tasks *)

Permits == 2            \* Semaphore::new(500), scaled down
NumConns == Permits + 1 \* connections that clients open

Conns == 1..NumConns
others == <<fnVars, sessVars, udpVars>>

DefaultUserAgent == <<70, 70, 70, 70>>      \* default_value = "FFFF"

NewConn ==
    [phase |-> "idle", permit |-> FALSE, cmd |-> "none", reply |-> "none",
     outbound |-> FALSE, udp |-> FALSE, pump |-> FALSE, ua |-> <<>>,
     end |-> "none"]

SrvInit ==
    /\ mainPc = "bind"
    /\ USERAGENT = NoneUa
    /\ available = Permits
    /\ loopPermit = FALSE
    /\ acceptFailed = FALSE
    /\ conns = [c \in Conns |-> NewConn]
    /\ ended = {}

Active(c) == conns[c].phase \notin {"idle", "ended"}

\* A start that leaves USERAGENT as it was.
set_useragent_skipped(user_agent) == NoneUa

\* Lines 80-82: USERAGENT = Some(args.user_agent)
set_useragent(user_agent) == Some(user_agent)

\* Lines 72-87, Ok: the listener is bound, USERAGENT is set from the arguments
\* and the semaphore is created.
Bind ==
    /\ mainPc = "bind"
    /\ USERAGENT' = set_useragent(DefaultUserAgent)
    /\ mainPc' = "acquire"
    /\ UNCHANGED <<others, available, loopPermit, acceptFailed, conns, ended>>

\* Lines 72-77, Err: start_server returns.
BindErr ==
    /\ mainPc = "bind"
    /\ mainPc' = "stopped"
    /\ UNCHANGED <<others, USERAGENT, available, loopPermit, acceptFailed, conns, ended>>

\* A semaphore that hands out a permit whatever is left.
acquire_ready_always(avail) == TRUE

\* Line 89: acquire_owned() completes when a permit is left.
acquire_ready(avail) == avail > 0

\* Line 89: the loop takes a permit before it accepts.
Acquire ==
    /\ mainPc = "acquire"
    /\ acquire_ready(available)
    /\ available' = available - 1
    /\ loopPermit' = TRUE
    /\ mainPc' = "accept"
    /\ UNCHANGED <<others, USERAGENT, acceptFailed, conns, ended>>

\* Lines 90-98: a connection is accepted and its task spawned; the permit moves
\* into the task.
Accept ==
    /\ mainPc = "accept"
    /\ \E c \in Conns :
          /\ conns[c].phase = "idle"
          /\ \A d \in Conns : d < c => conns[d].phase # "idle"
          /\ conns' = [conns EXCEPT ![c] = [@ EXCEPT !.phase = "auth", !.permit = TRUE]]
    /\ loopPermit' = FALSE
    /\ mainPc' = "acquire"
    /\ UNCHANGED <<others, USERAGENT, available, acceptFailed, ended>>

\* A loop that gives up at the first failed accept.
accept_err_stops == "stopped"

\* Lines 88 and 100-102: the Err arm only logs; the loop goes round again.
accept_err_next == "acquire"

\* Lines 100-101: accept fails; the permit is dropped at the end of the iteration.
AcceptErr ==
    /\ mainPc = "accept"
    /\ available' = available + 1
    /\ loopPermit' = FALSE
    /\ acceptFailed' = TRUE
    /\ mainPc' = accept_err_next
    /\ UNCHANGED <<others, USERAGENT, conns, ended>>

\* A release written at the end of the task body, which a panic skips.
drop_permit_unless_panic(avail, how) == IF how = "panic" THEN avail ELSE avail + 1

\* Lines 93-98: _permit is dropped when the task ends, however it ends.
drop_permit(avail, how) == avail + 1

\* The task of connection c ends: handler returned Ok or Err, or panicked.
Ended(r, how) == [r EXCEPT !.phase = "ended", !.end = how, !.permit = FALSE]
\* What is left of a task that has ended.
Gone == [NewConn EXCEPT !.phase = "ended"]

TaskSteps(c, r) ==
    /\ conns' = [conns EXCEPT ![c] = r]
    /\ UNCHANGED <<others, USERAGENT, mainPc, available, loopPermit, acceptFailed, ended>>

TaskEnds(c, r, how) ==
    /\ conns' = [conns EXCEPT ![c] = Gone]
    /\ ended' = ended \cup {Ended(r, how)}
    /\ available' = drop_permit(available, how)
    /\ UNCHANGED <<others, USERAGENT, mainPc, loopPermit, acceptFailed>>

\* Lines 107-113: authenticate.
Authenticate(c) ==
    /\ conns[c].phase = "auth"
    /\ TaskSteps(c, [conns[c] EXCEPT !.phase = "wait"])

AuthenticateErr(c) ==
    /\ conns[c].phase = "auth"
    /\ TaskEnds(c, conns[c], "err")

\* Lines 116-117, 147, 155: the command arrives: an Associate whose client
\* address is no socket address, an Associate with a socket address, a Bind or
\* a Connect; cmd keeps which it was.
WaitCommand(c) ==
    /\ conns[c].phase = "wait"
    /\ \E next \in {"assoc_reject", "assoc_udp_bind", "bind_reply", "connecting"} :
          TaskSteps(c, [conns[c] EXCEPT !.phase = next, !.cmd = next])

\* Lines 159-163
WaitErr(c) ==
    /\ conns[c].phase = "wait"
    /\ TaskEnds(c, conns[c], "err")

\* One reply code for every rejected command.
reject_reply_uniform(cmd) == "CommandNotSupported"

\* Lines 125 and 149: the reply code of a rejected command.
reject_reply(cmd) ==
    IF cmd = "bind_reply" THEN "CommandNotSupported" ELSE "AddressTypeNotSupported"

\* Lines 121-130: an Associate whose client address is no socket address.
AssocReject(c) ==
    /\ conns[c].phase = "assoc_reject"
    /\ \E sent_ok \in BOOLEAN, close_ok \in BOOLEAN :
          TaskEnds(c,
                   [conns[c] EXCEPT !.reply = IF sent_ok THEN reject_reply(conns[c].cmd)
                                              ELSE @],
                   IF sent_ok /\ ~close_ok THEN "err" ELSE "ok")

\* Lines 133-134: the UDP socket is bound.
AssocUdpBind(c) ==
    /\ conns[c].phase = "assoc_udp_bind"
    /\ TaskSteps(c, [conns[c] EXCEPT !.phase = "assoc_reply", !.udp = TRUE])

AssocUdpBindErr(c) ==
    /\ conns[c].phase = "assoc_udp_bind"
    /\ TaskEnds(c, conns[c], "err")

\* Lines 138-144: Succeeded is replied, the connection closed and the pump
\* spawned; a failed close returns before the spawn.
AssocReply(c) ==
    /\ conns[c].phase = "assoc_reply"
    /\ \E sent_ok \in BOOLEAN, close_ok \in BOOLEAN :
          TaskEnds(c,
                   [conns[c] EXCEPT !.reply = IF sent_ok THEN "Succeeded" ELSE @,
                                    !.pump = ~(sent_ok /\ ~close_ok)],
                   IF sent_ok /\ ~close_ok THEN "err" ELSE "ok")

\* Lines 147-153: Bind is rejected.
BindReply(c) ==
    /\ conns[c].phase = "bind_reply"
    /\ \E sent_ok \in BOOLEAN, close_ok \in BOOLEAN :
          TaskEnds(c,
                   [conns[c] EXCEPT !.reply = IF sent_ok THEN reject_reply(conns[c].cmd)
                                              ELSE @],
                   IF sent_ok /\ ~close_ok THEN "err" ELSE "ok")

\* Lines 278-286: the outbound connect.
Connecting(c) ==
    /\ conns[c].phase = "connecting"
    /\ TaskSteps(c, [conns[c] EXCEPT !.phase = "conn_reply", !.outbound = TRUE])

ConnectingErr(c) ==
    /\ conns[c].phase = "connecting"
    /\ TaskSteps(c, [conns[c] EXCEPT !.phase = "conn_unreachable"])

\* Lines 332-339
ConnUnreachable(c) ==
    /\ conns[c].phase = "conn_unreachable"
    /\ \E sent_ok \in BOOLEAN :
          TaskEnds(c,
                   [conns[c] EXCEPT !.reply = IF sent_ok THEN "HostUnreachable" ELSE @],
                   "err")

\* Lines 288-296
ConnReply(c) ==
    /\ conns[c].phase = "conn_reply"
    /\ TaskSteps(c, [conns[c] EXCEPT !.phase = "sniff", !.reply = "Succeeded"])

ConnReplyErr(c) ==
    /\ conns[c].phase = "conn_reply"
    /\ TaskEnds(c, conns[c], "err")

\* Line 310: a session classified as HTTP reads USERAGENT (ua is empty until
\* then and holds what the read saw after it); unwrap panics on None.
read_useragent(r, http) == [r EXCEPT !.ua = IF http THEN <<USERAGENT>> ELSE @]

\* Lines 298-319: the reads, the rewrite and the forward (SpecSession has the
\* bytes); the session goes on to the relay,
Sniff(c) ==
    /\ conns[c].phase = "sniff"
    /\ \E http \in BOOLEAN :
          /\ ~(http /\ USERAGENT = NoneUa)
          /\ TaskSteps(c, [read_useragent(conns[c], http) EXCEPT !.phase = "relay"])

\* or ends: the client sent nothing (Ok), a read, write or flush failed (Err),
\* or the unwrap of USERAGENT or the slice of the rewritten buffer panicked.
SniffEnds(c) ==
    /\ conns[c].phase = "sniff"
    /\ \E http \in BOOLEAN, how \in {"ok", "err", "panic"} :
          /\ (http /\ USERAGENT = NoneUa) => how = "panic"
          /\ (how = "panic") => http
          /\ (how = "ok") => ~http
          /\ TaskEnds(c, read_useragent(conns[c], http), how)

\* Lines 321-328 and 342: the relay ends and Ok(()) is returned.
Relay(c) ==
    /\ conns[c].phase = "relay"
    /\ TaskEnds(c, conns[c], "ok")

Next ==
    \/ Bind \/ BindErr \/ Acquire \/ Accept \/ AcceptErr
    \/ \E c \in Conns :
          \/ Authenticate(c) \/ AuthenticateErr(c) \/ WaitCommand(c) \/ WaitErr(c)
          \/ AssocReject(c) \/ AssocUdpBind(c) \/ AssocUdpBindErr(c) \/ AssocReply(c)
          \/ BindReply(c)
          \/ Connecting(c) \/ ConnectingErr(c) \/ ConnUnreachable(c)
          \/ ConnReply(c) \/ ConnReplyErr(c) \/ Sniff(c) \/ SniffEnds(c) \/ Relay(c)

Init == SrvInit /\ FnIdle /\ SessIdle /\ UdpIdle
Spec == Init /\ [][Next]_vars

---------------------------------------------------------------------------
(* Claims about the admission gate *)

ActiveConns == {c \in Conns : Active(c)}
Held == Cardinality({c \in Conns : conns[c].permit}) + (IF loopPermit THEN 1 ELSE 0)

\* C4: the accepted connections whose task has not ended never outnumber the
\* semaphore's permits; the loop stands at accept only with a permit of its own,
\* so with every permit held by a task it waits at acquire until a task ends.
C4_BoundedConcurrency ==
    (mainPc # "off") =>
        /\ Cardinality(ActiveConns) <= Permits
        /\ available >= 0
        /\ mainPc = "accept" => (loopPermit /\ Cardinality(ActiveConns) < Permits)
        /\ Cardinality(ActiveConns) = Permits => mainPc = "acquire"

\* C4's case: every permit is held by a running task, a further client is
\* waiting, and the loop is held at acquire.
C4_Witness ==
    /\ mainPc = "acquire" /\ available = 0
    /\ Cardinality(ActiveConns) = Permits
    /\ \E c \in Conns : conns[c].phase = "idle"

\* C5: a permit is held by the loop between acquire and accept and by each
\* running task, and by nothing else; ended tasks (Ok, Err or panic) hold none;
\* permits held and permits available always add up to the capacity.
C5_PermitsConserved ==
    (mainPc # "off") =>
        /\ Held + available = Permits
        /\ \A c \in Conns : conns[c].permit = Active(c)
        /\ loopPermit = (mainPc = "accept")

\* C5's case: tasks have ended with Ok, with Err and with a panic, an accept
\* has failed, and every permit is back.
C5_Witness ==
    /\ acceptFailed
    /\ \A how \in {"ok", "err", "panic"} :
          \E r \in ended : r.end = how
    /\ available = Permits

\* C16: the loop stops only at a failed bind; once it runs it stays at acquire
\* or accept whatever has failed, takes a permit whenever one is available and
\* accepts whenever a client is waiting; the step in which a handler ends (Ok,
\* Err or panic) or an accept fails leaves every other connection, the loop's
\* position and the replacement User-Agent as they were.
C16_FailureIsolation ==
    /\ [](mainPc # "off" =>
            /\ ((\E c \in Conns : conns[c].phase # "idle") \/ acceptFailed)
                   => mainPc \in {"acquire", "accept"}
            /\ (mainPc = "stopped") => (\A c \in Conns : conns[c].phase = "idle")
            /\ (mainPc = "acquire" /\ available > 0) => ENABLED Acquire
            /\ (mainPc = "accept" /\ \E c \in Conns : conns[c].phase = "idle")
                   => ENABLED Accept)
    /\ [][mainPc # "off" =>
            /\ (mainPc' = "stopped" /\ mainPc # "stopped") => mainPc = "bind"
            /\ \A c \in Conns :
                  (conns'[c].phase = "ended" /\ conns[c].phase # "ended") =>
                      /\ \A d \in Conns \ {c} : conns'[d] = conns[d]
                      /\ mainPc' = mainPc /\ loopPermit' = loopPermit
                      /\ USERAGENT' = USERAGENT
            /\ (acceptFailed' /\ mainPc = "accept" /\ mainPc' # "accept"
                   /\ loopPermit' = FALSE /\ available' = available + 1) =>
                      conns' = conns]_vars

\* C16's case: one handler has returned an error, another has panicked, an
\* accept has failed, and the loop is accepting a further connection while a
\* third handler runs on.
C16_Witness ==
    /\ acceptFailed /\ mainPc = "accept"
    /\ \E r \in ended : r.end = "err"
    /\ \E r \in ended : r.end = "panic"
    /\ \E c \in Conns : conns[c].phase = "idle"

\* C19 as stated, its first half: a pump has been started only for an
\* association whose Succeeded reply went out.
C19_PumpOnlyAfterSucceeded ==
    (mainPc # "off") =>
        \A r \in {conns[c] : c \in Conns} \cup ended :
            r.pump => r.reply = "Succeeded"

\* C20: USERAGENT changes in one step only, the step of start_server that sets
\* it from the configuration, taken while it is unset and no connection has
\* been accepted; while the loop runs and whenever a handler exists it holds the
\* configured value, and that value is what every handler that read it saw.
C20_WriteOnceBeforeReads ==
    /\ [](mainPc # "off" =>
            /\ (mainPc \in {"acquire", "accept"} \/ \E c \in Conns : conns[c].phase # "idle")
                   => USERAGENT = Some(DefaultUserAgent)
            /\ \A r \in {conns[c] : c \in Conns} \cup ended :
                   r.ua \in {<<>>, <<Some(DefaultUserAgent)>>})
    /\ [][mainPc # "off" =>
            (USERAGENT' # USERAGENT =>
                /\ mainPc = "bind" /\ USERAGENT = NoneUa
                /\ USERAGENT' = Some(DefaultUserAgent)
                /\ \A c \in Conns : conns[c].phase = "idle")]_vars

\* C20's case: two handlers running at once have both read the replacement.
C20_Witness ==
    \E c, d \in Conns :
        /\ c # d
        /\ conns[c].phase = "relay" /\ conns[c].ua = <<Some(DefaultUserAgent)>>
        /\ conns[d].phase = "relay" /\ conns[d].ua = <<Some(DefaultUserAgent)>>

\* The tasks, running or ended, each with its latest state.
Tasks == {conns[c] : c \in Conns} \cup ended
Rejected(r) == r.cmd \in {"bind_reply", "assoc_reject"}

\* C12 as stated: a connection whose command was rejected (a Bind, or an
\* Associate whose client address is no socket address) has been written no
\* reply but CommandNotSupported, and has no outbound connection, no UDP socket
\* and no pump.
C12_RejectedCommandNotSupported ==
    (mainPc # "off") =>
        \A r \in Tasks :
            Rejected(r) =>
                /\ r.reply \in {"none", "CommandNotSupported"}
                /\ ~r.outbound /\ ~r.udp /\ ~r.pump

\* C12 amended: a rejected Bind has been written no reply but
\* CommandNotSupported, a rejected Associate no reply but
\* AddressTypeNotSupported; neither has an outbound connection, a UDP socket or
\* a pump, and the reply is the handler's last step.
C12_RejectedByKind ==
    (mainPc # "off") =>
        \A r \in Tasks :
            Rejected(r) =>
                /\ r.cmd = "bind_reply" => r.reply \in {"none", "CommandNotSupported"}
                /\ r.cmd = "assoc_reject" =>
                       r.reply \in {"none", "AddressTypeNotSupported"}
                /\ r.reply # "none" => r.phase = "ended"
                /\ ~r.outbound /\ ~r.udp /\ ~r.pump

\* C12's case: a Bind and a non-socket Associate have both been answered and
\* their connections closed.
C12_Witness ==
    /\ \E r \in ended : /\ r.cmd = "bind_reply" /\ r.reply = "CommandNotSupported"
                        /\ r.end = "ok"
    /\ \E r \in ended : /\ r.cmd = "assoc_reject" /\ r.reply = "AddressTypeNotSupported"
                        /\ r.end = "ok"

---------------------------------------------------------------------------
(* main.rs: the SOCKS5 UDP framing *)

\* SocketAddr: V4 with 4 address bytes, V6 with 16, and a 16-bit port.
V4(ip, port) == [kind |-> "V4", ip |-> ip, port |-> port]
V6(ip, port) == [kind |-> "V6", ip |-> ip, port |-> port]
Unspecified == <<0, 0, 0, 0>>                   \* Ipv4Addr::UNSPECIFIED

\* u16::to_be_bytes and u16::from_be_bytes
to_be_bytes(port) == <<port \div 256, port % 256>>
from_be_bytes(hi, lo) == hi * 256 + lo

\* Lines 207-244. packet[i] of the source is packet[i + 1]; the result is an
\* Option: empty for None, one element for Some((addr, data)).
parse_socks5_udp_packet(packet) ==
    IF Len(packet) < 10 \/ packet[2] # 0 THEN <<>>
    ELSE LET address_type == packet[4]
         IN  IF address_type = 1
             THEN IF Len(packet) < 10 THEN <<>>
                  ELSE << [addr |-> V4(SubSeq(packet, 5, 8),
                                       from_be_bytes(packet[9], packet[10])),
                           data |-> Drop(packet, 10)] >>
             ELSE IF address_type = 3
             THEN LET domain_len == packet[5]
                  IN  IF Len(packet) < 5 + domain_len + 2 THEN <<>>
                      ELSE << [addr |-> V4(Unspecified,
                                           from_be_bytes(packet[5 + domain_len + 1],
                                                         packet[6 + domain_len + 1])),
                               data |-> Drop(packet, 5 + domain_len + 2)] >>
             ELSE <<>>

\* Lines 247-275: three zero bytes are pushed, the third is overwritten with the
\* address type, then the address, the port and the data are appended.
encapsulate_socks5_udp_packet(addr, data) ==
    LET header == <<0, 0, 0>>
    IN  [header EXCEPT ![3] = IF addr.kind = "V4" THEN 1 ELSE 4]
            \o addr.ip \o to_be_bytes(addr.port) \o data

---------------------------------------------------------------------------
(* SpecCodec: the framing functions applied to bounded inputs *)

MaxPayloadLen == 3

Payload(n) == [i \in 1..n |-> (i * 37) % 256]
Payloads == {Payload(n) : n \in 0..MaxPayloadLen} \cup {<<0>>, <<255, 0>>}

Loopback6 == <<0, 0, 0, 0, 0, 0, 0, 0, 0, 0, 0, 0, 0, 0, 0, 1>>
\* Addresses whose first byte is and is not one of the address types the parser
\* knows, with ports below and above 256.
Addrs4 ==
    { V4(<<10, 0, 0, 2>>, 8080), V4(<<8, 8, 8, 8>>, 53), V4(<<1, 0, 0, 1>>, 256),
      V4(<<3, 1, 120, 0>>, 80), V4(Unspecified, 0),
      V4(<<255, 255, 255, 255>>, 65535) }
Addrs == Addrs4 \cup { V6(Loopback6, 53) }

\* The frame of the protocol: RSV, FRAG, ATYP, address, port, data.
Frame(atyp, address, port, data) ==
    <<0, 0, 0, atyp>> \o address \o <<port \div 256, port % 256>> \o data

\* Packets handed to the parser: frames with an IPv4 address, a domain name
\* and an IPv6 address, truncated frames, and frames with a wrong RSV byte.
ParserInputs ==
    LET frames == { Frame(1, a.ip, a.port, d) : a \in Addrs4, d \in Payloads }
                  \cup { Frame(3, <<1, 120>>, 80, d) : d \in Payloads }
                  \cup { Frame(3, <<5, 120, 46, 99, 111, 109>>, 443, <<>>),
                         Frame(4, Loopback6, 53, <<7>>) }
    IN  frames \cup { Take(f, Min(9, Len(f))) : f \in frames }
               \cup { [f EXCEPT ![2] = 1] : f \in frames }

CodecInputs ==
    /\ cPc = "input"
    /\ \/ /\ cAddr \in Addrs /\ cData \in Payloads /\ cPacket = <<>>
       \/ /\ cAddr = NoAddr /\ cData = <<>> /\ cPacket \in ParserInputs
    /\ cParsed = <<>>

\* encapsulate_socks5_udp_packet(&addr, data)
CallEncapsulate ==
    /\ cPc = "input" /\ cAddr # NoAddr
    /\ cPacket' = encapsulate_socks5_udp_packet(cAddr, cData)
    /\ cPc' = "encapsulated"
    /\ UNCHANGED <<cAddr, cData, cParsed, pumpVars, fnVars, sessVars, srvVars, USERAGENT>>

\* parse_socks5_udp_packet(&packet), of a packet given or just built
CallParse ==
    /\ \/ cPc = "input" /\ cAddr = NoAddr
       \/ cPc = "encapsulated"
    /\ cParsed' = parse_socks5_udp_packet(cPacket)
    /\ cPc' = "parsed"
    /\ UNCHANGED <<cAddr, cData, cPacket, pumpVars, fnVars, sessVars, srvVars, USERAGENT>>

CodecNext == CallEncapsulate \/ CallParse

CodecInit ==
    CodecInputs /\ PumpIdle /\ FnIdle /\ SessIdle /\ SrvIdle /\ USERAGENT = NoneUa
SpecCodec == CodecInit /\ [][CodecNext]_vars

\* C17 as stated: the packet built for an IPv4 address is RSV (two zero
\* bytes), FRAG, ATYP 1, the four address bytes, the port in big-endian and the
\* data, and for an IPv6 address the same with ATYP 4 and sixteen address
\* bytes; the parser gives the IPv4 address and the data back.
C17_FrameRoundTrip ==
    /\ (cPc \in {"encapsulated", "parsed"} /\ cAddr # NoAddr) =>
          /\ Len(cPacket) = 4 + Len(cAddr.ip) + 2 + Len(cData)
          /\ SubSeq(cPacket, 1, 2) = <<0, 0>>
          /\ cPacket[4] = (IF cAddr.kind = "V4" THEN 1 ELSE 4)
          /\ Drop(cPacket, 4) = cAddr.ip \o <<cAddr.port \div 256, cAddr.port % 256>> \o cData
    /\ (cPc = "parsed" /\ cAddr.kind = "V4") =>
          cParsed = << [addr |-> cAddr, data |-> cData] >>

---------------------------------------------------------------------------
(* SpecUdp: handle_udp_traffic, the pump of one association *)

MaxDatagrams == 2

ClientAddr == V4(<<10, 0, 0, 2>>, 8080)        \* client_addr of the association
DnsAddr == V4(<<8, 8, 8, 8>>, 53)              \* a target

\* What arrives at the UDP socket: from the client, frames addressed to a
\* target by IPv4 address and by domain name, a frame of a type the parser
\* does not know and a truncated one; from the target, its answers as they
\* are, short and long, and one whose bytes happen to read as a frame.
Datagrams ==
    { [src |-> ClientAddr, bytes |-> b] :
        b \in { Frame(1, DnsAddr.ip, DnsAddr.port, <<104, 105>>),
                Frame(1, DnsAddr.ip, DnsAddr.port, <<>>),
                Frame(3, <<1, 120>>, 80, <<7>>),
                Frame(4, Loopback6, 53, <<7>>),
                <<0, 0, 0, 1, 8, 8>> } }
    \cup
    { [src |-> DnsAddr, bytes |-> b] :
        b \in { <<111, 107>>,
                <<9, 1, 9, 9, 9, 9, 9, 9, 9, 9, 9, 9>>,
                Frame(1, <<1, 0, 0, 1>>, 256, <<111>>) } }

NoDatagram == [src |-> NoAddr, bytes |-> <<>>]

PumpStart ==
    /\ udpPc = "recv" /\ udpIn = NoDatagram /\ udpOut = <<>> /\ udpCount = 0

\* One call of send_to, as the log of the socket keeps it: the destination, the
\* bytes, whether it succeeded, and (ghost) the received datagram being handled.
SendTo(bytes, to, ok) == [to |-> to, bytes |-> bytes, ok |-> ok, cause |-> udpIn]

\* Line 176, Ok: recv_from returns a datagram, whoever sent it.
UdpRecv ==
    /\ udpPc = "recv" /\ udpCount < MaxDatagrams
    /\ \E dg \in Datagrams : udpIn' = dg
    /\ udpCount' = udpCount + 1
    /\ udpPc' = "forward"
    /\ UNCHANGED <<udpOut, codecVars, fnVars, sessVars, srvVars, USERAGENT>>

\* Lines 199-201: recv_from fails; the error is logged and the loop goes on.
UdpRecvErr ==
    /\ udpPc = "recv" /\ udpCount < MaxDatagrams
    /\ udpCount' = udpCount + 1
    /\ udpIn' = NoDatagram
    /\ UNCHANGED <<udpPc, udpOut, codecVars, fnVars, sessVars, srvVars, USERAGENT>>

\* Line 181, None: the datagram does not parse and is dropped.
UdpDrop ==
    /\ udpPc = "forward"
    /\ parse_socks5_udp_packet(udpIn.bytes) = <<>>
    /\ udpPc' = "recv"
    /\ UNCHANGED <<udpIn, udpOut, udpCount, codecVars, fnVars, sessVars, srvVars,
                   USERAGENT>>

\* Lines 181-190: the payload is sent to the decoded address; on failure the
\* loop continues with the next datagram.
UdpForward ==
    /\ udpPc = "forward"
    /\ parse_socks5_udp_packet(udpIn.bytes) # <<>>
    /\ LET parsed == parse_socks5_udp_packet(udpIn.bytes)[1]
       IN  \E ok \in BOOLEAN :
              /\ udpOut' = Append(udpOut, SendTo(parsed.data, parsed.addr, ok))
              /\ udpPc' = IF ok THEN "respond" ELSE "recv"
    /\ UNCHANGED <<udpIn, udpCount, codecVars, fnVars, sessVars, srvVars, USERAGENT>>

\* Lines 193-196: the payload just forwarded is encapsulated with the source
\* address of the datagram it came in and sent to the client; a failure is logged.
UdpRespond ==
    /\ udpPc = "respond"
    /\ LET data == parse_socks5_udp_packet(udpIn.bytes)[1].data
           response == encapsulate_socks5_udp_packet(udpIn.src, data)
       IN  \E ok \in BOOLEAN :
              udpOut' = Append(udpOut, SendTo(response, ClientAddr, ok))
    /\ udpPc' = "recv"
    /\ UNCHANGED <<udpIn, udpCount, codecVars, fnVars, sessVars, srvVars, USERAGENT>>

PumpNext == UdpRecv \/ UdpRecvErr \/ UdpDrop \/ UdpForward \/ UdpRespond

PumpInit ==
    PumpStart /\ CodecIdle /\ FnIdle /\ SessIdle /\ SrvIdle /\ USERAGENT = NoneUa
SpecUdp == PumpInit /\ [][PumpNext]_vars

Sends == {udpOut[i] : i \in 1..Len(udpOut)}

\* C18 as stated: what is sent to another address than the client's is the
\* payload of a frame the client sent, to the address that frame names; what is
\* sent to the client is the frame of a datagram received from a target, with
\* that datagram's source address and bytes; and once the pump is back at
\* recv_from, the datagram a target sent has been sent on to the client.
C18_ClientToTargetOnly ==
    /\ \A o \in Sends :
          o.to # ClientAddr =>
              /\ o.cause.src = ClientAddr
              /\ \/ o.cause.bytes = Frame(1, o.to.ip, o.to.port, o.bytes)
                 \/ \E name \in {<<1, 120>>} :
                        o.cause.bytes = Frame(3, name, o.to.port, o.bytes)
    /\ \A o \in Sends :
          o.to = ClientAddr =>
              /\ o.cause.src # ClientAddr
              /\ o.bytes = Frame(1, o.cause.src.ip, o.cause.src.port, o.cause.bytes)
    /\ (udpPc = "recv" /\ udpIn.src \notin {NoAddr, ClientAddr}) =>
          \E o \in Sends : o.to = ClientAddr /\ o.cause = udpIn

============================================================================
